---- MODULE Spec2Model ----
(***************************************************************************)
(* DataManager of fast_proxy_manager/data_manager.py: the record list, the *)
(* attribute index, the last-selection position and the persisted snapshot,*)
(* with one action per public method.  Positions are 0-based as in the     *)
(* source; the record at position i is proxies[i + 1].                     *)
(***************************************************************************)
EXTENDS Integers, Sequences, FiniteSets, TLC

VARIABLES proxies,           \* self.proxies: list of record dicts
          index,             \* self.index: the three value -> positions maps
          last_proxy_index,  \* self.last_proxy_index: None or a position
          msgpack,           \* TRUE when a store file is configured
          min_proxies,       \* self.min_proxies
          stored,            \* the snapshot last written to the store file
          lastOp,            \* history: the call just completed and its outcome
          lastReturned,      \* history: url of the record the last successful get_proxy chose
          prevReturned,      \* history: the url the get_proxy before it chose, when the last
                             \* two calls were both get_proxy calls that returned
          sinceSelect        \* history: the pool at that get_proxy and the feedback(False) calls
                             \* that followed it with nothing else in between

vars == <<proxies, index, last_proxy_index, msgpack, min_proxies, stored, lastOp, lastReturned, prevReturned, sinceSelect>>

\* ---------------------------------------------------------------- bounds
MaxBatch == 2      \* longest list handed to add_proxy
MaxSucceed == 1    \* cap on the successes counted in the pool, to keep times_succeed finite
MinProxiesOn == 2  \* the non-default min_proxies a manager may be built with

\* -------------------------------------------------- configuration defaults
allowed_fails_in_row == 2
fails_without_check == 2
\* percent_failed_to_remove = 0.5, kept as the fraction PercentNum / PercentDen
PercentNum == 1
PercentDen == 2

\* Python's None for last_proxy_index (positions are >= 0)
None == -1

\* ------------------------------------------------------------ input values
ProtocolValues == {"http", "https", "socks4", "socks5"}
CountryValues == {"US", "DE", "unknown"}
AnonymityValues == {"elite", "unknown"}

\* A raw url: scheme and host make up the normalized endpoint string, tail is
\* whatever else the raw spelling carries.
UrlA == [scheme |-> "http", host |-> "a", tail |-> ""]
UrlA2 == [scheme |-> "http", host |-> "a", tail |-> "/"]
UrlB == [scheme |-> "https", host |-> "b", tail |-> ""]
UrlC == [scheme |-> "http", host |-> "c", tail |-> ""]

\* The dict-like entries callers hand to add_proxy; country, anonymity and
\* protocol are optional keys.
Candidates ==
    { [url |-> UrlA, country |-> "US", anonymity |-> "elite"],
      [url |-> UrlA2, country |-> "US", anonymity |-> "elite"],
      [url |-> UrlB, country |-> "DE"],
      [url |-> UrlC, protocol |-> "ftp"] }

\* the lists of at most n entries of S, no entry twice in a list (the same
\* endpoint comes twice in a list as UrlA and UrlA2)
RECURSIVE SeqsUpTo(_, _)
SeqsUpTo(S, n) ==
    IF n = 0 THEN {<<>>}
    ELSE LET shorter == SeqsUpTo(S, n - 1)
         IN shorter \cup
            UNION {{Append(s, x) : x \in S \ {s[i] : i \in 1..Len(s)}} :
                       s \in {t \in shorter : Len(t) = n - 1}}

Batches == SeqsUpTo(Candidates, MaxBatch)

\* ------------------------------------------------------------------- URL
\* repr(URL(raw)): the normalized endpoint string, scheme and host only
URLrepr(raw) == <<raw.scheme, raw.host>>
\* URL(raw).protocol
URLprotocol(raw) == raw.scheme

\* ------------------------------------------------------------ ProxyIndex
EmptyIndex ==
    [protocol_index |-> [v \in ProtocolValues |-> {}],
     country_index |-> [v \in CountryValues |-> {}],
     anonymity_index |-> [v \in AnonymityValues |-> {}]]

index_clear(idx) == EmptyIndex

rebuild_index(ps) ==
    [protocol_index |-> [v \in ProtocolValues |->
        {i \in 0..(Len(ps) - 1) : ps[i + 1].protocol = v}],
     country_index |-> [v \in CountryValues |->
        {i \in 0..(Len(ps) - 1) : ps[i + 1].country = v}],
     anonymity_index |-> [v \in AnonymityValues |->
        {i \in 0..(Len(ps) - 1) : ps[i + 1].anonymity = v}]]

index_add_proxy(idx, i, proxy) ==
    [protocol_index |-> [idx.protocol_index EXCEPT ![proxy.protocol] = @ \cup {i}],
     country_index |-> [idx.country_index EXCEPT ![proxy.country] = @ \cup {i}],
     anonymity_index |-> [idx.anonymity_index EXCEPT ![proxy.anonymity] = @ \cup {i}]]

index_remove_proxy(idx, i, proxy) ==
    [protocol_index |-> [idx.protocol_index EXCEPT ![proxy.protocol] = @ \ {i}],
     country_index |-> [idx.country_index EXCEPT ![proxy.country] = @ \ {i}],
     anonymity_index |-> [idx.anonymity_index EXCEPT ![proxy.anonymity] = @ \ {i}]]

\* ------------------------------------------------------ the object's state
\* The mutable fields of a DataManager as one value, so that a method calling
\* another method composes.
Self ==
    [proxies |-> proxies, index |-> index,
     last_proxy_index |-> last_proxy_index, stored |-> stored]

Commit(s) ==
    /\ proxies' = s.proxies
    /\ index' = s.index
    /\ last_proxy_index' = s.last_proxy_index
    /\ stored' = s.stored

\* What a call leaves behind: the object's state, the exception it raised (""
\* when it returned) and the value it returned.
Returns(s, v) == [self |-> s, raised |-> "", value |-> v]
Raises(s, e) == [self |-> s, raised |-> e, value |-> "None"]
\* the same for an exception raised with a message: value is the message
RaisesWith(s, e, message) == [self |-> s, raised |-> e, value |-> message]

\* _write_data: self.msgpack and write_msgpack(self.msgpack, self.proxies)
write_data(s) == IF msgpack THEN [s EXCEPT !.stored = s.proxies] ELSE s

Reverse(s) == [i \in 1..Len(s) |-> s[Len(s) - i + 1]]

\* the scan with records told apart by protocol instead of by url
RECURSIVE DedupScan_by_protocol(_, _)
DedupScan_by_protocol(s, seen_urls) ==
    IF s = <<>> THEN <<>>
    ELSE IF Head(s).protocol \in seen_urls
         THEN DedupScan_by_protocol(Tail(s), seen_urls)
         ELSE <<Head(s)>> \o DedupScan_by_protocol(Tail(s), seen_urls \cup {Head(s).protocol})

\* the list comprehension of _rm_duplicate_proxies over an already reversed list
RECURSIVE DedupScan(_, _)
DedupScan(s, seen_urls) ==
    IF s = <<>> THEN <<>>
    ELSE IF Head(s).url \in seen_urls
         THEN DedupScan(Tail(s), seen_urls)
         ELSE <<Head(s)>> \o DedupScan(Tail(s), seen_urls \cup {Head(s).url})

\* the pass with the seen-test dropped: every record is kept
rm_duplicate_proxies_keep_all(s) ==
    LET new_proxies == Reverse(s.proxies)
    IN [s EXCEPT !.proxies = new_proxies, !.index = rebuild_index(new_proxies)]

\* the pass scanning the list front to back: the first occurrence is kept and
\* the order stays
rm_duplicate_proxies_keep_first(s) ==
    LET new_proxies == DedupScan(s.proxies, {})
    IN [s EXCEPT !.proxies = new_proxies, !.index = rebuild_index(new_proxies)]

rm_duplicate_proxies(s) ==
    LET new_proxies == DedupScan(Reverse(s.proxies), {})
    IN [s EXCEPT !.proxies = new_proxies, !.index = rebuild_index(new_proxies)]

update_data(s, remove_duplicates) ==
    write_data(IF remove_duplicates THEN rm_duplicate_proxies(s) ELSE s)

\* the record add_proxy builds from one entry
NewProxy(c) ==
    [url |-> URLrepr(c.url),
     protocol |-> URLprotocol(c.url),
     country |-> IF "country" \in DOMAIN c THEN c.country ELSE "unknown",
     anonymity |-> IF "anonymity" \in DOMAIN c THEN c.anonymity ELSE "unknown",
     times_failed |-> 0,
     times_succeed |-> 0,
     times_failed_in_row |-> 0]

RECURSIVE IndexNew(_, _, _)
\* for i, proxy in enumerate(new_proxies, start=start_index): index.add_proxy(i, proxy)
IndexNew(idx, new_proxies, start) ==
    IF new_proxies = <<>> THEN idx
    ELSE IndexNew(index_add_proxy(idx, start, Head(new_proxies)), Tail(new_proxies), start + 1)

add_proxy(s, batch) ==
    LET start_index == Len(s.proxies)
        new_proxies == [i \in 1..Len(batch) |-> NewProxy(batch[i])]
        extended == [s EXCEPT !.proxies = s.proxies \o new_proxies,
                              !.index = IndexNew(s.index, new_proxies, start_index)]
    IN Returns(update_data(extended, TRUE), "None")

RemoveAt(ps, i) == [k \in 1..(Len(ps) - 1) |-> IF k <= i THEN ps[k] ELSE ps[k + 1]]

\* rm_proxy without the rebuild after the pop: the index is only pruned
rm_proxy_no_rebuild(s, i) ==
    IF 0 <= i /\ i < Len(s.proxies)
    THEN LET proxy == s.proxies[i + 1]
             pruned == [s EXCEPT !.index = index_remove_proxy(s.index, i, proxy)]
             popped == [pruned EXCEPT !.proxies = RemoveAt(pruned.proxies, i)]
             shifted == [popped EXCEPT !.last_proxy_index =
                            IF @ # None /\ i < @ THEN @ - 1 ELSE @]
         IN Returns(write_data(shifted), "None")
    ELSE Raises(s, "IndexError")

\* rm_proxy with the lower bound of the guard dropped: a negative position
\* counts from the end of the list, as list.pop takes it
rm_proxy_negative_ok(s, i) ==
    IF i < Len(s.proxies) /\ s.proxies # <<>>
    THEN LET at == IF i < 0 THEN Len(s.proxies) + i ELSE i
             proxy == s.proxies[at + 1]
             pruned == [s EXCEPT !.index = index_remove_proxy(s.index, at, proxy)]
             popped == [pruned EXCEPT !.proxies = RemoveAt(pruned.proxies, at)]
             rebuilt == [popped EXCEPT !.index = rebuild_index(popped.proxies)]
             shifted == [rebuilt EXCEPT !.last_proxy_index =
                            IF @ # None /\ i < @ THEN @ - 1 ELSE @]
         IN Returns(write_data(shifted), "None")
    ELSE Raises(s, "IndexError")

\* rm_proxy without the adjustment of last_proxy_index
rm_proxy_no_shift(s, i) ==
    IF 0 <= i /\ i < Len(s.proxies)
    THEN LET proxy == s.proxies[i + 1]
             pruned == [s EXCEPT !.index = index_remove_proxy(s.index, i, proxy)]
             popped == [pruned EXCEPT !.proxies = RemoveAt(pruned.proxies, i)]
             rebuilt == [popped EXCEPT !.index = rebuild_index(popped.proxies)]
         IN Returns(write_data(rebuilt), "None")
    ELSE Raises(s, "IndexError")

rm_proxy(s, i) ==
    IF 0 <= i /\ i < Len(s.proxies)
    THEN LET proxy == s.proxies[i + 1]
             pruned == [s EXCEPT !.index = index_remove_proxy(s.index, i, proxy)]
             popped == [pruned EXCEPT !.proxies = RemoveAt(pruned.proxies, i)]
             rebuilt == [popped EXCEPT !.index = rebuild_index(popped.proxies)]
             shifted == [rebuilt EXCEPT !.last_proxy_index =
                            IF @ # None /\ i < @ THEN @ - 1 ELSE @]
         IN Returns(write_data(shifted), "None")
    ELSE Raises(s, "IndexError")

\* rm_all_proxies without self.index.clear()
rm_all_proxies_keeps_index(s) ==
    Returns(write_data([s EXCEPT !.proxies = <<>>]), "None")

rm_all_proxies(s) ==
    Returns(write_data([s EXCEPT !.proxies = <<>>, !.index = index_clear(s.index)]), "None")

force_rm_last_proxy(s) ==
    IF s.last_proxy_index # None THEN rm_proxy(s, s.last_proxy_index)
    ELSE Returns(s, "None")

\* ---------------------------------------------------------- feedback_proxy
\* failed_ratio > self.percent_failed_to_remove, over integers
RatioExceeds(proxy) ==
    LET total_attempts == proxy.times_failed + proxy.times_succeed
    IN IF total_attempts > 0
       THEN proxy.times_failed * PercentDen > PercentNum * total_attempts
       ELSE FALSE

should_remove(proxy) ==
    \/ proxy.times_failed_in_row > allowed_fails_in_row
    \/ (proxy.times_failed > fails_without_check /\ RatioExceeds(proxy))

\* the early return of feedback_proxy
feedback_returns_early(s) ==
    s.last_proxy_index = None \/ s.last_proxy_index >= Len(s.proxies)

\* the success branch counting on times_failed
feedback_success_counts_failed(s) ==
    LET k == s.last_proxy_index + 1
    IN Returns(write_data([s EXCEPT !.proxies[k].times_failed = @ + 1,
                                    !.proxies[k].times_failed_in_row = 0]), "None")

\* the success branch returning before the snapshot is written
feedback_success_unsaved(s) ==
    LET k == s.last_proxy_index + 1
    IN Returns([s EXCEPT !.proxies[k].times_succeed = @ + 1,
                         !.proxies[k].times_failed_in_row = 0], "None")

feedback_success(s) ==
    LET k == s.last_proxy_index + 1
    IN Returns(write_data([s EXCEPT !.proxies[k].times_succeed = @ + 1,
                                    !.proxies[k].times_failed_in_row = 0]), "None")

\* the else branch without the call of rm_proxy
feedback_failure_never_removes(s) ==
    LET k == s.last_proxy_index + 1
    IN Returns(write_data([s EXCEPT !.proxies[k].times_failed = @ + 1,
                                    !.proxies[k].times_failed_in_row = @ + 1]), "None")

\* the else branch: the counters are updated in place, should_remove only
\* selects the log message, and rm_proxy is called at the else block's level
feedback_failure(s) ==
    LET k == s.last_proxy_index + 1
        counted == [s EXCEPT !.proxies[k].times_failed = @ + 1,
                             !.proxies[k].times_failed_in_row = @ + 1]
        removed == rm_proxy(counted, counted.last_proxy_index)
    IN IF removed.raised # "" THEN removed
       ELSE Returns(write_data(removed.self), "None")

feedback_proxy(s, success) ==
    IF feedback_returns_early(s) THEN Returns(s, "None")
    ELSE IF success THEN feedback_success(s)
    ELSE feedback_failure(s)

\* --------------------------------------------------------------- get_proxy
\* A filter argument is None, a str or a list of str.
NoneArg == [tag |-> "none"]
StrArg(v) == [tag |-> "str", v |-> v]
ListArg(l) == [tag |-> "list", v |-> l]

\* Python truthiness of a filter argument
Truthy(p) == (p.tag = "str" /\ p.v # "") \/ (p.tag = "list" /\ p.v # <<>>)
\* [p] if isinstance(p, str) else p
AsList(p) == IF p.tag = "str" THEN <<p.v>> ELSE p.v

Range(l) == {l[i] : i \in 1..Len(l)}

\* set().union(*(bucket[v] for v in values)); a value never indexed has an empty bucket
BucketUnion(bucket, p) ==
    UNION {IF v \in DOMAIN bucket THEN bucket[v] ELSE {} : v \in Range(AsList(p))}

\* _validate_protocol: the list of protocols, or ValueError with the first
\* protocol that is none of the four
validate_protocol(protocols) ==
    IF protocols.tag = "none" THEN [raised |-> "", value |-> <<>>]
    ELSE LET l == AsList(protocols)
             invalid == {i \in 1..Len(l) : l[i] \notin ProtocolValues}
         IN IF invalid # {}
            THEN [raised |-> "ValueError",
                  value |-> l[CHOOSE i \in invalid : \A j \in invalid : i <= j]]
            ELSE [raised |-> "", value |-> l]

NoFilter ==
    [protocol |-> NoneArg, country |-> NoneArg, anonymity |-> NoneArg,
     exclude_protocol |-> NoneArg, exclude_country |-> NoneArg,
     exclude_anonymity |-> NoneArg]

\* the filter combinations tried, as a list since str and list arguments mix
Filters ==
    << NoFilter,
      [NoFilter EXCEPT !.protocol = StrArg("http")],
      [NoFilter EXCEPT !.protocol = ListArg(<<"https">>)],
      [NoFilter EXCEPT !.country = StrArg("US"), !.exclude_anonymity = ListArg(<<"unknown">>)],
      [NoFilter EXCEPT !.exclude_protocol = StrArg("http")],
      [NoFilter EXCEPT !.protocol = ListArg(<<"http", "https">>), !.exclude_country = StrArg("DE")],
      [NoFilter EXCEPT !.anonymity = ListArg(<<"elite", "socks5">>), !.exclude_country = ListArg(<<>>)] >>

\* the return_type tried with each entry of Filters
ReturnTypes == <<"url", "url", "country", "url", "url", "country", "url">>

Include(valid, bucket, p) == IF Truthy(p) THEN valid \cap BucketUnion(bucket, p) ELSE valid
\* an exclude filter applied with &= instead of -=
Exclude_intersects(valid, bucket, p) ==
    IF Truthy(p) THEN valid \cap BucketUnion(bucket, p) ELSE valid
Exclude(valid, bucket, p) == IF Truthy(p) THEN valid \ BucketUnion(bucket, p) ELSE valid

\* valid_indices as it stands at the emptiness test
valid_indices(s, f) ==
    LET v0 == 0..(Len(s.proxies) - 1)
        v1 == Include(v0, s.index.protocol_index, f.protocol)
        v2 == Include(v1, s.index.country_index, f.country)
        v3 == Include(v2, s.index.anonymity_index, f.anonymity)
        v4 == Exclude(v3, s.index.protocol_index, f.exclude_protocol)
        v5 == Exclude(v4, s.index.country_index, f.exclude_country)
    IN Exclude(v5, s.index.anonymity_index, f.exclude_anonymity)

\* the draw without the anti-repeat adjustment
choice_set_with_last(s, f) == valid_indices(s, f)

\* valid_indices after the anti-repeat adjustment: what choice() draws from
choice_set(s, f) ==
    LET valid == valid_indices(s, f)
    IN IF /\ s.last_proxy_index # None
          /\ s.last_proxy_index \in valid
          /\ Cardinality(valid) > 1
       THEN valid \ {s.last_proxy_index}
       ELSE valid

\* the messages of the two NoProxyAvailable raised by get_proxy
NotEnoughProxies == "Not enough proxies available. Fetch more proxies."
NoProxyFound == "No proxy found with the given parameters."

\* get_proxy testing the filters before the size of the pool
get_proxy_filters_first(s, return_type, f, pick) ==
    IF valid_indices(s, f) = {}
    THEN RaisesWith(s, "NoProxyAvailable", NoProxyFound)
    ELSE IF min_proxies # 0 /\ Len(s.proxies) < min_proxies
    THEN RaisesWith(s, "NoProxyAvailable", NotEnoughProxies)
    ELSE Returns([s EXCEPT !.last_proxy_index = pick], s.proxies[pick + 1][return_type])

\* get_proxy forgetting the last selection when it raises
get_proxy_forgets_on_failure(s, return_type, f, pick) ==
    LET forgotten == [s EXCEPT !.last_proxy_index = None]
    IN IF min_proxies # 0 /\ Len(s.proxies) < min_proxies
       THEN RaisesWith(forgotten, "NoProxyAvailable", NotEnoughProxies)
       ELSE IF valid_indices(s, f) = {}
       THEN RaisesWith(forgotten, "NoProxyAvailable", NoProxyFound)
       ELSE Returns([s EXCEPT !.last_proxy_index = pick], s.proxies[pick + 1][return_type])

\* get_proxy with choice() returning pick
get_proxy(s, return_type, f, pick) ==
    IF min_proxies # 0 /\ Len(s.proxies) < min_proxies
    THEN RaisesWith(s, "NoProxyAvailable", NotEnoughProxies)
    ELSE IF valid_indices(s, f) = {}
    THEN RaisesWith(s, "NoProxyAvailable", NoProxyFound)
    ELSE Returns([s EXCEPT !.last_proxy_index = pick], s.proxies[pick + 1][return_type])

\* what choice() may return; a call that raises before it draws nothing
Picks(s, f) ==
    IF (min_proxies # 0 /\ Len(s.proxies) < min_proxies) \/ valid_indices(s, f) = {}
    THEN {None}
    ELSE choice_set(s, f)

\* ------------------------------------------------------------- construction
\* _load_proxies: the store file's content, or [] without a store file
load_proxies == IF msgpack THEN stored ELSE <<>>

\* no record chosen yet
NoUrl == <<>>

\* the constructor arguments tried: the defaults without a store file, and a
\* store file with a minimum pool size
Configs ==
    { [msgpack |-> FALSE, min_proxies |-> 0],
      [msgpack |-> TRUE, min_proxies |-> MinProxiesOn] }

NoSelect == [pool |-> <<>>, fails |-> -1]

Init ==
    /\ \E cfg \in Configs : msgpack = cfg.msgpack /\ min_proxies = cfg.min_proxies
    /\ stored = <<>>
    /\ proxies = <<>>
    /\ last_proxy_index = None
    /\ index = rebuild_index(<<>>)
    /\ lastOp = [kind |-> "init", arg |-> "None", raised |-> "", value |-> "None"]
    /\ lastReturned = NoUrl
    /\ prevReturned = NoUrl
    /\ sinceSelect = NoSelect

\* ------------------------------------------------------------------ actions
Done(kind, arg, r) ==
    /\ Commit(r.self)
    /\ lastOp' = [kind |-> kind, arg |-> arg, raised |-> r.raised, value |-> r.value]
    /\ UNCHANGED <<msgpack, min_proxies>>

\* a new DataManager over the same store file
Construct ==
    /\ lastOp.kind # "init"
    /\ proxies' = load_proxies
    /\ last_proxy_index' = None
    /\ index' = rebuild_index(load_proxies)
    /\ lastOp' = [kind |-> "init", arg |-> "None", raised |-> "", value |-> "None"]
    /\ lastReturned' = NoUrl
    /\ prevReturned' = NoUrl
    /\ sinceSelect' = NoSelect
    /\ UNCHANGED <<msgpack, min_proxies, stored>>

AddProxy ==
    \E batch \in Batches :
        /\ Done("add_proxy", batch, add_proxy(Self, batch))
        /\ sinceSelect' = NoSelect
        /\ prevReturned' = NoUrl
        /\ UNCHANGED lastReturned

RmProxy ==
    \E i \in -1..Len(proxies) :
        /\ Done("rm_proxy", i, rm_proxy(Self, i))
        /\ sinceSelect' = NoSelect
        /\ prevReturned' = NoUrl
        /\ UNCHANGED lastReturned

RmAllProxies ==
    /\ Done("rm_all_proxies", "None", rm_all_proxies(Self))
    /\ sinceSelect' = NoSelect
    /\ prevReturned' = NoUrl
    /\ UNCHANGED lastReturned

ForceRmLastProxy ==
    /\ Done("force_rm_last_proxy", "None", force_rm_last_proxy(Self))
    /\ sinceSelect' = NoSelect
    /\ prevReturned' = NoUrl
    /\ UNCHANGED lastReturned

UpdateData ==
    \E remove_duplicates \in BOOLEAN :
        /\ Done("update_data", remove_duplicates,
                Returns(update_data(Self, remove_duplicates), "None"))
        /\ sinceSelect' = NoSelect
        /\ prevReturned' = NoUrl
        /\ UNCHANGED lastReturned

GetProxy ==
    \E n \in 1..Len(Filters) :
        \E pick \in Picks(Self, Filters[n]) :
            LET f == Filters[n]
                return_type == ReturnTypes[n]
                r == get_proxy(Self, return_type, f, pick)
            IN /\ Done("get_proxy", [return_type |-> return_type, filter |-> f], r)
               /\ lastReturned' = IF r.raised = "" THEN proxies[pick + 1].url ELSE lastReturned
               /\ prevReturned' = IF r.raised = "" /\ lastOp.kind = "get_proxy" /\ lastOp.raised = ""
                                  THEN lastReturned ELSE NoUrl
               /\ sinceSelect' = IF r.raised = "" THEN [pool |-> proxies, fails |-> 0]
                                 ELSE NoSelect

\* the successes counted in the records of ps
RECURSIVE Successes(_)
Successes(ps) == IF ps = <<>> THEN 0 ELSE Head(ps).times_succeed + Successes(Tail(ps))

FeedbackProxy ==
    \E success \in BOOLEAN :
        /\ success /\ ~feedback_returns_early(Self) => Successes(proxies) < MaxSucceed
        /\ Done("feedback_proxy", success, feedback_proxy(Self, success))
        /\ sinceSelect' = IF ~success /\ sinceSelect.fails >= 0
                             /\ sinceSelect.fails <= allowed_fails_in_row
                          THEN [sinceSelect EXCEPT !.fails = @ + 1]
                          ELSE NoSelect
        /\ prevReturned' = NoUrl
        /\ UNCHANGED lastReturned

Next ==
    \/ Construct
    \/ AddProxy
    \/ RmProxy
    \/ RmAllProxies
    \/ ForceRmLastProxy
    \/ UpdateData
    \/ GetProxy
    \/ FeedbackProxy

Spec == Init /\ [][Next]_vars

\* ------------------------------------------------------------ properties
Urls(ps) == {ps[i].url : i \in 1..Len(ps)}
\* the record of url u in the list ps
RecordOf(ps, u) == ps[CHOOSE i \in 1..Len(ps) : ps[i].url = u]

\* the step just taken was a call of the named method
Called(kind) == lastOp'.kind = kind

\* C1: a feedback_proxy call raises nothing, changes or evicts no record other
\* than the one the most recent successful get_proxy returned, adds none, and
\* changes nothing at all when that record is not in the pool (or no get_proxy
\* has succeeded yet).
C1_FeedbackOnlyTouchesSelected ==
    [][Called("feedback_proxy") =>
        /\ lastOp'.raised = ""
        /\ Urls(proxies') \subseteq Urls(proxies)
        /\ \A u \in Urls(proxies) \ {lastReturned} :
               u \in Urls(proxies') /\ RecordOf(proxies', u) = RecordOf(proxies, u)
        /\ lastReturned \notin Urls(proxies) => proxies' = proxies]_vars

\* the record at the last selection after a failure has been counted on it
CountedFailure(proxy) ==
    [proxy EXCEPT !.times_failed = @ + 1, !.times_failed_in_row = @ + 1]

\* C2: feedback_proxy(False) on a valid last selection adds 1 to times_failed
\* and times_failed_in_row of that record and removes it exactly when
\* times_failed_in_row > allowed_fails_in_row or (times_failed >
\* fails_without_check and the failed ratio > percent_failed_to_remove);
\* otherwise the record stays at its position with the new counters.
C2_FailureEvictsOnlyOverThreshold ==
    [][(Called("feedback_proxy") /\ lastOp'.arg = FALSE /\ ~feedback_returns_early(Self)) =>
        LET k == last_proxy_index + 1
            counted == CountedFailure(proxies[k])
        IN IF should_remove(counted)
           THEN proxies' = RemoveAt(proxies, last_proxy_index)
           ELSE proxies' = [proxies EXCEPT ![k] = counted]]_vars

\* C3: after a successful get_proxy on a pool of n records and exactly
\* allowed_fails_in_row + 1 feedback_proxy(False) calls with nothing in between,
\* the pool holds n - 1 records: all the records it held but the one get_proxy
\* returned.
C3_EvictedAfterAllowedFailsPlusOne ==
    sinceSelect.fails = allowed_fails_in_row + 1 =>
        /\ Len(proxies) = Len(sinceSelect.pool) - 1
        /\ Urls(proxies) = Urls(sinceSelect.pool) \ {lastReturned}

\* C4: no two records of the pool have the same url.
C4_NoDuplicateUrls ==
    \A i, j \in 1..Len(proxies) : i # j => proxies[i].url # proxies[j].url

\* an add_proxy call given the same endpoint twice, in two spellings, has run
C4_Witness ==
    /\ lastOp.kind = "add_proxy"
    /\ Len(lastOp.arg) = 2
    /\ lastOp.arg[1].url # lastOp.arg[2].url
    /\ URLrepr(lastOp.arg[1].url) = URLrepr(lastOp.arg[2].url)
    /\ Len(proxies) >= 2

\* the positions of the pool
Positions == 0..(Len(proxies) - 1)

\* C5: for each of protocol, country and anonymity and every value v, the
\* bucket of v is exactly the set of positions whose record has that value, so
\* no bucket holds a position >= the pool's size and every position is in
\* exactly one bucket per attribute.
C5_IndexMatchesPositions ==
    /\ \A v \in ProtocolValues :
           index.protocol_index[v] = {i \in Positions : proxies[i + 1].protocol = v}
    /\ \A v \in CountryValues :
           index.country_index[v] = {i \in Positions : proxies[i + 1].country = v}
    /\ \A v \in AnonymityValues :
           index.anonymity_index[v] = {i \in Positions : proxies[i + 1].anonymity = v}
    /\ \A i \in Positions :
           /\ Cardinality({v \in ProtocolValues : i \in index.protocol_index[v]}) = 1
           /\ Cardinality({v \in CountryValues : i \in index.country_index[v]}) = 1
           /\ Cardinality({v \in AnonymityValues : i \in index.anonymity_index[v]}) = 1

\* a removal has shifted positions in a pool whose records differ in protocol
C5_Witness ==
    /\ lastOp.kind = "rm_proxy"
    /\ lastOp.raised = ""
    /\ Len(proxies) = 2
    /\ proxies[1].protocol # proxies[2].protocol


\* the record satisfies the filter: each attribute is among the requested
\* values of its dimension when any are requested, and among no excluded value
Wanted(value, p) == Truthy(p) => value \in Range(AsList(p))
Unwanted(value, p) == Truthy(p) /\ value \in Range(AsList(p))
Matches(proxy, f) ==
    /\ Wanted(proxy.protocol, f.protocol)
    /\ Wanted(proxy.country, f.country)
    /\ Wanted(proxy.anonymity, f.anonymity)
    /\ ~Unwanted(proxy.protocol, f.exclude_protocol)
    /\ ~Unwanted(proxy.country, f.exclude_country)
    /\ ~Unwanted(proxy.anonymity, f.exclude_anonymity)
Matching(ps, f) == {i \in 0..(Len(ps) - 1) : Matches(ps[i + 1], f)}

C7_NoImmediateRepeat ==
    (/\ lastOp.kind = "get_proxy"
     /\ lastOp.raised = ""
     /\ prevReturned # NoUrl
     /\ Cardinality(Matching(proxies, lastOp.arg.filter)) >= 2) =>
        /\ lastReturned # prevReturned
        /\ proxies[last_proxy_index + 1].url = lastReturned
        /\ \A i \in Matching(proxies, lastOp.arg.filter) :
               (/\ Cardinality(Matching(proxies, lastOp.arg.filter)) = 2
                /\ proxies[i + 1].url = prevReturned) =>
                   Matching(proxies, lastOp.arg.filter) = {i, last_proxy_index}

\* a second get_proxy in a row has returned where exactly two of three records
\* satisfy its filters and the first call's choice is one of them
C7_Witness ==
    /\ lastOp.kind = "get_proxy"
    /\ lastOp.raised = ""
    /\ prevReturned # NoUrl
    /\ Len(proxies) = 3
    /\ Cardinality(Matching(proxies, lastOp.arg.filter)) = 2
    /\ \E i \in Matching(proxies, lastOp.arg.filter) : proxies[i + 1].url = prevReturned

\* the normalized urls of a batch
BatchUrls(batch) == {URLrepr(batch[i].url) : i \in 1..Len(batch)}

\* C8: after add_proxy the urls of the pool are those it held before united
\* with the (normalized) urls of the batch, one record each.
C8_AddKeepsEveryUrl ==
    [][Called("add_proxy") =>
        /\ lastOp'.raised = ""
        /\ Urls(proxies') = Urls(proxies) \cup BatchUrls(lastOp'.arg)
        /\ Len(proxies') = Cardinality(Urls(proxies) \cup BatchUrls(lastOp'.arg))]_vars

\* a batch of two distinct endpoints, one of them already in the pool, was added
C8_Witness ==
    /\ lastOp.kind = "add_proxy"
    /\ Len(lastOp.arg) = 2
    /\ Cardinality(BatchUrls(lastOp.arg)) = 2
    /\ Len(proxies) = 3

\* C9: rm_proxy with a position < 0 or >= the pool's size raises IndexError
\* and leaves the record list, the index, the last selection and the persisted
\* snapshot as they were.
C9_RemoveOutOfRangeChangesNothing ==
    [][(Called("rm_proxy") /\ (lastOp'.arg < 0 \/ lastOp'.arg >= Len(proxies))) =>
        /\ lastOp'.raised = "IndexError"
        /\ UNCHANGED <<proxies, index, last_proxy_index, stored>>]_vars

\* rm_proxy(-1) was called on a pool of several records with a last selection
C9_Witness ==
    /\ lastOp.kind = "rm_proxy"
    /\ lastOp.arg = -1
    /\ lastOp.raised = "IndexError"
    /\ Len(proxies) >= 2
    /\ last_proxy_index # None

\* C10: feedback_proxy(True) on a valid last selection adds 1 to times_succeed
\* of the record there, sets its times_failed_in_row to 0 and changes nothing
\* else of the pool; and no other call lowers times_failed_in_row of a record
\* that stays in the pool.
C10_SuccessCountsAndResets ==
    [][/\ (Called("feedback_proxy") /\ lastOp'.arg = TRUE /\ ~feedback_returns_early(Self)) =>
            LET k == last_proxy_index + 1
            IN /\ lastOp'.raised = ""
               /\ Len(proxies') = Len(proxies)
               /\ proxies'[k].times_succeed = proxies[k].times_succeed + 1
               /\ proxies'[k].times_failed_in_row = 0
               /\ proxies'[k].times_failed = proxies[k].times_failed
               /\ proxies'[k].url = proxies[k].url
               /\ \A j \in 1..Len(proxies) : j # k => proxies'[j] = proxies[j]
       /\ ~(Called("feedback_proxy") /\ lastOp'.arg = TRUE) =>
            \A u \in Urls(proxies) \cap Urls(proxies') :
                RecordOf(proxies', u).times_failed_in_row >= RecordOf(proxies, u).times_failed_in_row]_vars

\* a success was recorded on the last selection in a pool of several records
C10_Witness ==
    /\ lastOp.kind = "feedback_proxy"
    /\ lastOp.arg = TRUE
    /\ Len(proxies) >= 2
    /\ last_proxy_index # None
    /\ last_proxy_index < Len(proxies)
    /\ proxies[last_proxy_index + 1].times_succeed = 1


\* the calls that change the record list or its records
Mutators == {"add_proxy", "rm_proxy", "rm_all_proxies", "feedback_proxy"}

\* C11: with a store file configured, when add_proxy, rm_proxy, rm_all_proxies
\* or feedback_proxy has completed, the snapshot last written is the record
\* list in memory, in the same order and with the same counters.
C11_SnapshotIsThePool ==
    (msgpack /\ lastOp.kind \in Mutators) => stored = proxies

\* a success was counted on a record of a pool kept in a store file
C11_Witness ==
    /\ msgpack
    /\ lastOp.kind = "feedback_proxy"
    /\ lastOp.arg = TRUE
    /\ last_proxy_index # None
    /\ last_proxy_index < Len(stored)
    /\ stored[last_proxy_index + 1].times_succeed = 1


\* the entries of a batch that carry a protocol _validate_protocol rejects
InvalidEntries(batch) ==
    {i \in 1..Len(batch) :
        /\ "protocol" \in DOMAIN batch[i]
        /\ validate_protocol(StrArg(batch[i].protocol)).raised = "ValueError"}

\* C12: add_proxy given an entry whose protocol is none of http, https, socks4,
\* socks5 raises the validation error and leaves the record list, the index,
\* the last selection and the persisted snapshot as they were.
C12_InvalidProtocolAbortsBatch ==
    [][(Called("add_proxy") /\ InvalidEntries(lastOp'.arg) # {}) =>
        /\ lastOp'.raised = "ValueError"
        /\ UNCHANGED <<proxies, index, last_proxy_index, stored>>]_vars


\* get_proxy is called on a pool smaller than a configured minimum
BelowMinimum == min_proxies # 0 /\ Len(proxies) < min_proxies

\* C13 as stated: get_proxy on a pool below a configured minimum fails with an
\* error of another type than NoProxyAvailable, leaving the last selection.
C13_InsufficientPoolIsDistinct ==
    [][(Called("get_proxy") /\ BelowMinimum) =>
        /\ lastOp'.raised \notin {"", "NoProxyAvailable"}
        /\ UNCHANGED last_proxy_index]_vars

\* C13: get_proxy on a pool below a configured minimum raises NoProxyAvailable
\* with the message "Not enough proxies available. Fetch more proxies."
\* whatever the filters match, and leaves the last selection and the pool as
\* they were; on a pool at or above the minimum, or with a minimum of 0, it
\* never raises with that message.
C13_BelowMinimumRaisesNotEnough ==
    [][Called("get_proxy") =>
        IF BelowMinimum
        THEN /\ lastOp'.raised = "NoProxyAvailable"
             /\ lastOp'.value = NotEnoughProxies
             /\ UNCHANGED <<proxies, index, last_proxy_index, stored>>
        ELSE lastOp'.raised # "" => lastOp'.value # NotEnoughProxies]_vars

\* get_proxy failed for the size of the pool although a record matched its
\* filters and an earlier selection was remembered
C13_Witness ==
    /\ lastOp.kind = "get_proxy"
    /\ lastOp.raised = "NoProxyAvailable"
    /\ lastOp.value = NotEnoughProxies
    /\ Matching(proxies, lastOp.arg.filter) # {}
    /\ last_proxy_index # None


\* the position of url u in the list ps, and of its last entry in a batch
PositionOf(ps, u) == CHOOSE i \in 1..Len(ps) : ps[i].url = u
LastEntryOf(batch, u) ==
    CHOOSE i \in 1..Len(batch) :
        /\ URLrepr(batch[i].url) = u
        /\ \A j \in (i + 1)..Len(batch) : URLrepr(batch[j].url) # u

\* after add_proxy the record of every url of the batch is the one built from
\* its last entry in the batch, with counters 0
SurvivorIsLatest ==
    \A u \in BatchUrls(lastOp'.arg) :
        RecordOf(proxies', u) = NewProxy(lastOp'.arg[LastEntryOf(lastOp'.arg, u)])

\* after add_proxy the records of the batch come first, a later entry before
\* an earlier one, and the records held before follow it; KeptOrder(i, j) says
\* where two of the latter, at positions i < j after the call, were before
BatchFirst(KeptOrder(_, _)) ==
    LET batch == lastOp'.arg
        added == BatchUrls(batch)
    IN \A i, j \in 1..Len(proxies') :
           i < j =>
               LET ui == proxies'[i].url
                   uj == proxies'[j].url
               IN IF uj \in added
                  THEN ui \in added /\ LastEntryOf(batch, ui) > LastEntryOf(batch, uj)
                  ELSE ui \in added \/ KeptOrder(PositionOf(proxies, ui), PositionOf(proxies, uj))

StaysBefore(i, j) == i < j
ComesAfter(i, j) == i > j

Counters(proxy) ==
    <<proxy.times_failed, proxy.times_succeed, proxy.times_failed_in_row>>

\* C15: add_proxy, rm_proxy, rm_all_proxies and get_proxy leave the counters
\* of every url that is in the pool before and after the call as they were,
\* also when add_proxy is given a url the pool already holds.
C15_OnlyFeedbackChangesCounters ==
    [][lastOp'.kind \in {"add_proxy", "rm_proxy", "rm_all_proxies", "get_proxy"} =>
        \A u \in Urls(proxies) \cap Urls(proxies') :
            Counters(RecordOf(proxies', u)) = Counters(RecordOf(proxies, u))]_vars


\* C16: rm_proxy with a position of the list returns, and afterwards the list
\* is the one before without the record at that position, the others as they
\* were and in their order; a last selection behind the removed position is
\* lowered by 1 and, when it designated a record, designates the same record;
\* a last selection at or before it, or none, stays.
C16_RemoveTakesExactlyThatRecord ==
    [][(Called("rm_proxy") /\ 0 <= lastOp'.arg /\ lastOp'.arg < Len(proxies)) =>
        /\ lastOp'.raised = ""
        /\ Len(proxies') = Len(proxies) - 1
        /\ \A k \in 1..Len(proxies') :
               proxies'[k] = IF k <= lastOp'.arg THEN proxies[k] ELSE proxies[k + 1]
        /\ IF last_proxy_index # None /\ last_proxy_index > lastOp'.arg
           THEN /\ last_proxy_index' = last_proxy_index - 1
                /\ last_proxy_index < Len(proxies) =>
                       proxies'[last_proxy_index' + 1] = proxies[last_proxy_index + 1]
           ELSE last_proxy_index' = last_proxy_index]_vars

\* a record in front of the last selected one was removed, and the last
\* selection still designates the record get_proxy returned
C16_Witness ==
    /\ lastOp.kind = "rm_proxy"
    /\ lastOp.raised = ""
    /\ last_proxy_index # None
    /\ lastOp.arg <= last_proxy_index
    /\ last_proxy_index < Len(proxies)
    /\ proxies[last_proxy_index + 1].url = lastReturned


C18_SelectOnlyMovesLastSelection ==
    [][Called("get_proxy") =>
        /\ UNCHANGED <<proxies, index, stored>>
        /\ IF lastOp'.raised = ""
           THEN /\ last_proxy_index' \in Positions
                /\ lastOp'.value = proxies[last_proxy_index' + 1][lastOp'.arg.return_type]
           ELSE /\ lastOp'.raised = "NoProxyAvailable"
                /\ UNCHANGED last_proxy_index]_vars

\* get_proxy found no record for its filters in a pool that holds records and
\* a last selection
C18_Witness ==
    /\ lastOp.kind = "get_proxy"
    /\ lastOp.raised = "NoProxyAvailable"
    /\ lastOp.value = NoProxyFound
    /\ Len(proxies) >= 1
    /\ last_proxy_index # None
    /\ last_proxy_index < Len(proxies)


\* C19: every record in the pool has times_failed_in_row <=
\* allowed_fails_in_row and <= times_failed, and does not have times_failed >
\* fails_without_check together with a failed ratio > percent_failed_to_remove.
C19_NoRecordOverThreshold ==
    \A i \in 1..Len(proxies) :
        /\ proxies[i].times_failed_in_row <= allowed_fails_in_row
        /\ proxies[i].times_failed_in_row <= proxies[i].times_failed
        /\ ~(proxies[i].times_failed > fails_without_check /\ RatioExceeds(proxies[i]))

\* a failure was reported on the selected record of a pool that still holds
\* other records, one of them with a success counted
C19_Witness ==
    /\ lastOp.kind = "feedback_proxy"
    /\ lastOp.arg = FALSE
    /\ Len(proxies) >= 1
    /\ Len(proxies) < Len(sinceSelect.pool)
    /\ \E i \in 1..Len(proxies) : proxies[i].times_succeed >= 1


\* C20: force_rm_last_proxy returns, removes no record other than the one the
\* most recent successful get_proxy returned, and changes nothing when that
\* record is not in the pool or no get_proxy has succeeded.
C20_ForceRemovesOnlyTheSelected ==
    [][Called("force_rm_last_proxy") =>
        /\ lastOp'.raised = ""
        /\ Urls(proxies) \ {lastReturned} \subseteq Urls(proxies')
        /\ lastReturned \notin Urls(proxies) => proxies' = proxies]_vars

====
